---------------------------- MODULE Spec2Model ----------------------------
(***************************************************************************)
(* A model of downlinx (src/downlinx.py): the command-line entry point,    *)
(* the source catalog and its construction-time validation, the transform  *)
(* pipeline with its generated-image counter, the freshness-gated fetcher  *)
(* and the geometry helpers.                                               *)
(*                                                                         *)
(* Strings are sequences of one-character strings, so that replacing       *)
(* spaces, formatting the counter and building file names are computed and *)
(* two names are equal exactly when their characters are.                  *)
(***************************************************************************)
EXTENDS Integers, Sequences, FiniteSets, TLC

VARIABLES
    pc,                     \* where the process is: "main", "construct", "recipe", "exit0", "exit1", "aborted"
    error,                  \* the exception that ended the run, "none" while there is none
    find_exec,              \* the executables find_executable() finds on the PATH
    argv,                   \* sys.argv
    run_py,                 \* the directories that hold a run.py
    sources,                \* Downlinx.sources: the catalog as loaded from sources.json
    generated_image_count,  \* Pipeline.generated_image_count
    fs,                     \* the files of the images directory: path -> [exists, mtime, ver]
    now,                    \* the wall clock, in seconds
    handles,                \* the Image handles returned so far
    getLog,                 \* one record per get() call, in call order
    calls,                  \* external commands run so far, by what they are for
    failed,                 \* how many of them exited with a failure status
    allocated,              \* what _new has handed out, in order: the counter value and the path
    orig,                   \* geometry: the size to scale
    bounding_box,           \* geometry: the box to fit it in
    fitted                  \* geometry: the result of scale_to_fit, "none" before the call

vars == <<pc, error, find_exec, argv, run_py, sources, generated_image_count, fs,
          now, handles, getLog, calls, failed, allocated, orig, bounding_box, fitted>>

entryVars == <<find_exec, argv, run_py>>
geomVars == <<orig, bounding_box, fitted>>
pipeVars == <<generated_image_count, fs, now, handles, getLog, calls, failed, allocated>>

-----------------------------------------------------------------------------
(* Bounds of the model. *)

MaxImages == 2      \* transform operations per run
MaxGets == 2        \* get() calls per run
MaxDesktop == 1     \* background-setting / viewer calls per run
MaxDays == 1        \* whole days the clock may advance
MaxSecs == 4        \* seconds the clock may advance within a day
MaxSources == 2     \* sources in a catalog under validation

(* timedelta.seconds is the seconds part of a timedelta normalised to      *)
(* (days, seconds, microseconds) with 0 <= seconds < 86400.                *)
SecondsPerDay == 86400

-----------------------------------------------------------------------------
(* Strings *)

None == "None"

Whitespace == {" ", "\t"}

\* _has_whitespace (re.search(r'\s', string))
HasWhitespace(string) == \E i \in 1..Len(string) : string[i] \in Whitespace

\* str.replace(' ', '_')
ReplaceChar(string) == [i \in 1..Len(string) |-> IF string[i] = " " THEN "_" ELSE string[i]]

Digits == <<"0", "1", "2", "3", "4", "5", "6", "7", "8", "9">>

RECURSIVE Decimal(_)
\* the decimal digits an f-string formats a non-negative int with
Decimal(n) == IF n < 10 THEN <<Digits[n + 1]>>
              ELSE Decimal(n \div 10) \o <<Digits[(n % 10) + 1]>>

-----------------------------------------------------------------------------
(* Executables and command lines *)

\* _is_legacy_imagemagick, kept in the module global LEGACY_IMAGE_MAGICK
LEGACY_IMAGE_MAGICK ==
    IF "magick" \in find_exec THEN "False"
    ELSE IF "convert" \in find_exec THEN "True"
    ELSE None

(* The external commands a run makes, counted by what they are for: the    *)
(* image tool run by magick() ("image": 'magick convert ...' or 'convert   *)
(* ...', by dialect), the probe of Image.__init__ ("identify"), the        *)
(* transfer tool ("curl") and the desktop commands ("desktop").            *)
Commands == {"image", "identify", "curl", "desktop"}

NoCalls == [c \in Commands |-> 0]

Ran(c, command) == [c EXCEPT ![command] = @ + 1]

\* a fault: subprocess.call in the place of check_call, the exit status is ignored
CallNeverRaises(status) == FALSE

\* subprocess.check_call: a non-zero exit status raises CalledProcessError
CheckCallRaises(status) == status # 0

\* subprocess.check_output in Image.__init__: raises on a non-zero exit status
CheckOutputRaises(status) == status # 0

ExitStatus == {0, 1}

\* 1 for an exit status that reports a failure, 0 for success
Failures(status) == IF status # 0 THEN 1 ELSE 0

-----------------------------------------------------------------------------
(* Files *)

\* os.path.isfile
IsFile(files, filepath) == filepath \in DOMAIN files /\ files[filepath].exists

Version(files, filepath) == IF filepath \in DOMAIN files THEN files[filepath].ver ELSE 0

\* a tool writes filepath at time t: new content, modification time t
WriteFile(files, filepath, t) ==
    [p \in DOMAIN files \cup {filepath} |->
        IF p = filepath
        THEN [exists |-> TRUE, mtime |-> t, ver |-> Version(files, filepath) + 1]
        ELSE files[p]]

\* os.remove
RemoveFile(files, filepath) == [files EXCEPT ![filepath].exists = FALSE]

\* Pipeline._image_path: os.path.join(self.images_dir, filename)
ImagePath(filename) == <<"images", "/">> \o filename

\* Image.__init__ on a file that is there: the handle holds the path and the
\* size probed from the content; ver stands for that content, by for the
\* operation that returned the handle
Image(files, filepath, by) == [filepath |-> filepath, ver |-> files[filepath].ver, by |-> by]

-----------------------------------------------------------------------------
(* The run ends: an uncaught exception leaves the recipe, exec_module and   *)
(* main, and the interpreter exits.                                        *)

Raise(exception) == pc' = "aborted" /\ error' = exception

Continue == pc' = pc /\ error' = error

-----------------------------------------------------------------------------
(* Pipeline *)

\* a fault: a name that leaves the counter out
NewFilenameWithoutCount(count, image_type) ==
    <<"g", "e", "n", "e", "r", "a", "t", "e", "d">> \o <<".">> \o image_type

\* Pipeline._new, the name: f'generated{self.generated_image_count}.{image_type}'
NewFilename(count, image_type) ==
    <<"g", "e", "n", "e", "r", "a", "t", "e", "d">> \o Decimal(count) \o <<".">> \o image_type

\* a fault: the counter is left where it is
NextCountStuck(count) == count

\* Pipeline._new, the counter: self.generated_image_count += 1
NextCount(count) == count + 1

Png == <<"p", "n", "g">>
Jpg == <<"j", "p", "g">>

\* Pipeline._new followed by magick(...) and Image(path), as crop, blank, place,
\* resize and to_jpg all do.  status and probe are the exit statuses of the image
\* tool and of identify; partial says whether a failing tool left a file behind.
Transform(image_type, status, partial, probe) ==
    /\ pc = "recipe"
    /\ generated_image_count < MaxImages
    /\ LET filepath == ImagePath(NewFilename(generated_image_count, image_type))
           removed == IF IsFile(fs, filepath) THEN RemoveFile(fs, filepath) ELSE fs
           written == IF status = 0 \/ partial
                      THEN WriteFile(removed, filepath, now) ELSE removed
           probed == IF IsFile(written, filepath) THEN probe ELSE 1
       IN  /\ generated_image_count' = NextCount(generated_image_count)
           /\ allocated' = Append(allocated, [count |-> generated_image_count,
                                               filepath |-> filepath])
           /\ fs' = written
           /\ IF CheckCallRaises(status)
              THEN /\ calls' = Ran(calls, "image")
                   /\ failed' = failed + Failures(status)
                   /\ handles' = handles
                   /\ Raise("CalledProcessError")
              ELSE /\ calls' = Ran(Ran(calls, "image"), "identify")
                   /\ failed' = failed + Failures(status) + Failures(probed)
                   /\ IF CheckOutputRaises(probed)
                      THEN handles' = handles /\ Raise("CalledProcessError")
                      ELSE /\ handles' = handles \cup {Image(written, filepath, "transform")}
                           /\ Continue
    /\ UNCHANGED <<now, getLog, sources, entryVars, geomVars>>

\* Pipeline.crop(image, offset, size); image is a handle returned earlier
Crop(status, partial, probe) ==
    /\ handles # {}
    /\ Transform(Png, status, partial, probe)

\* Pipeline.blank(color, size)
Blank(status, partial, probe) == Transform(Png, status, partial, probe)

\* Pipeline.place(new, offset, base); new and base are handles returned earlier
Place(status, partial, probe) ==
    /\ handles # {}
    /\ Transform(Png, status, partial, probe)

\* Pipeline.resize(image, size); image is a handle returned earlier
Resize(status, partial, probe) ==
    /\ handles # {}
    /\ Transform(Png, status, partial, probe)

\* Pipeline.to_jpg(image); image is a handle returned earlier
ToJpg(status, partial, probe) ==
    /\ handles # {}
    /\ Transform(Jpg, status, partial, probe)

-----------------------------------------------------------------------------
(* Source catalog *)

\* _replace_spaces, the value: source_name.replace(' ', '_')
ReplaceSpaces(source_name) == ReplaceChar(source_name)

\* _replace_spaces, the assertion: _assert_no_whitespace(replaced) fails
ReplaceSpacesRaises(source_name) == HasWhitespace(ReplaceSpaces(source_name))

JpgSuffix == <<".", "j", "p", "g">>

\* str.endswith
EndsWith(string, suffix) ==
    /\ Len(string) >= Len(suffix)
    /\ SubSeq(string, Len(string) - Len(suffix) + 1, Len(string)) = suffix

RECURSIVE UniqueNamesFrom(_, _, _, _)
\* Downlinx._assert_unique_names, the loop from source i on with the two sets
\* built so far: the exception it raises, "none" when it returns
UniqueNamesFrom(catalog, i, unique_names, unique_names_no_spaces) ==
    IF i > Len(catalog) THEN "none"
    ELSE LET name == catalog[i].name
             name_no_spaces == ReplaceSpaces(name)
         IN  IF ReplaceSpacesRaises(name) THEN "AssertionError"
             ELSE IF name \in unique_names THEN "Exception"
             ELSE IF name_no_spaces \in unique_names_no_spaces THEN "Exception"
             ELSE UniqueNamesFrom(catalog, i + 1, unique_names \cup {name},
                                  unique_names_no_spaces \cup {name_no_spaces})

\* a fault: only the names as given are compared
AssertRawNamesUnique(catalog) ==
    IF \E i \in 1..Len(catalog) : ReplaceSpacesRaises(catalog[i].name) THEN "AssertionError"
    ELSE IF \E i \in 1..Len(catalog) : \E j \in 1..Len(catalog) :
                i # j /\ catalog[i].name = catalog[j].name
    THEN "Exception" ELSE "none"

\* Downlinx._assert_unique_names
AssertUniqueNames(catalog) == UniqueNamesFrom(catalog, 1, {}, {})

\* Downlinx._assert_all_formats_expected
AssertAllFormatsExpected(catalog) ==
    IF \A i \in 1..Len(catalog) : \A sz \in DOMAIN catalog[i].url :
           EndsWith(catalog[i].url[sz], JpgSuffix)
    THEN "none" ELSE "AssertionError"

\* Downlinx.__init__: Pipeline.__init__, then the catalog is loaded and validated
Construct ==
    /\ pc = "construct"
    /\ generated_image_count' = 0
    /\ LET unique == AssertUniqueNames(sources)
           formats == AssertAllFormatsExpected(sources)
       IN  IF unique # "none" THEN Raise(unique)
           ELSE IF formats # "none" THEN Raise(formats)
           ELSE pc' = "recipe" /\ error' = error
    /\ UNCHANGED <<sources, fs, now, handles, getLog, calls, failed, allocated,
                   entryVars, geomVars>>

\* a fault: a name the catalog does not hold is given the first source
SourceOrFirst(catalog, source_name) ==
    LET hits == {i \in 1..Len(catalog) : catalog[i].name = source_name}
    IN  IF hits = {} THEN 1 ELSE CHOOSE i \in hits : \A j \in hits : i <= j

\* Downlinx._source: the index of the first source of that name; 0 stands for
\* the None the loop falls through to
Source(catalog, source_name) ==
    LET hits == {i \in 1..Len(catalog) : catalog[i].name = source_name}
    IN  IF hits = {} THEN 0 ELSE CHOOSE i \in hits : \A j \in hits : i <= j

\* timedelta.seconds of (now - modification_time)
Seconds(delta) == delta % SecondsPerDay

\* Downlinx.get, the cache file name
CacheFilename(source_name, size) == ReplaceSpaces(source_name) \o <<"_">> \o size \o JpgSuffix

\* Downlinx.get, the test that skips the download
RecentEnough(age, interval) == age < interval

\* Downlinx.get.  status and probe are the exit statuses of curl and of identify;
\* partial says whether a failing curl left a file behind.
Get(source_name, size, status, partial, probe) ==
    /\ pc = "recipe"
    /\ Len(getLog) < MaxGets
    /\ LET filepath == ImagePath(CacheFilename(source_name, size))
           source == Source(sources, source_name)
           existed == IsFile(fs, filepath)
           elapsed == IF existed THEN now - fs[filepath].mtime ELSE 0
           age == Seconds(elapsed)
           entry == [source_name |-> source_name, size |-> size, filepath |-> filepath,
                     at |-> now, existed |-> existed, elapsed |-> elapsed,
                     downloaded |-> FALSE, returned |-> FALSE]
           Probe(files, c, e, f) ==
               /\ calls' = Ran(c, "identify")
               /\ failed' = f + Failures(IF IsFile(files, filepath) THEN probe ELSE 1)
               /\ IF CheckOutputRaises(IF IsFile(files, filepath) THEN probe ELSE 1)
                  THEN /\ handles' = handles
                       /\ getLog' = Append(getLog, e)
                       /\ Raise("CalledProcessError")
                  ELSE /\ handles' = handles \cup {Image(files, filepath, "get")}
                       /\ getLog' = Append(getLog, [e EXCEPT !.returned = TRUE])
                       /\ Continue
           Fail(exception) ==
               /\ fs' = fs /\ calls' = calls /\ failed' = failed /\ handles' = handles
               /\ getLog' = Append(getLog, entry)
               /\ Raise(exception)
       IN  IF ReplaceSpacesRaises(source_name) \/ HasWhitespace(filepath)
           THEN Fail("AssertionError")
           ELSE IF existed /\ source = 0 THEN Fail("TypeError")
           ELSE IF existed /\ RecentEnough(age, sources[source].interval)
           THEN fs' = fs /\ Probe(fs, calls, entry, failed)
           ELSE IF source = 0 THEN Fail("TypeError")
           ELSE IF size \notin DOMAIN sources[source].url THEN Fail("KeyError")
           ELSE LET written == IF status = 0 \/ partial
                               THEN WriteFile(fs, filepath, now) ELSE fs
                    ran == Ran(calls, "curl")
                    e == [entry EXCEPT !.downloaded = TRUE]
                IN  /\ fs' = written
                    /\ IF CheckCallRaises(status)
                       THEN /\ calls' = ran /\ handles' = handles
                            /\ failed' = failed + Failures(status)
                            /\ getLog' = Append(getLog, e)
                            /\ Raise("CalledProcessError")
                       ELSE Probe(written, ran, e, failed + Failures(status))
    /\ UNCHANGED <<generated_image_count, allocated, now, sources, entryVars, geomVars>>

-----------------------------------------------------------------------------
(* Desktop commands; the image each is given is a handle returned earlier *)

\* a function that runs one command through _check_call_with_echo
RunOne(status) ==
    /\ pc = "recipe"
    /\ calls["desktop"] < MaxDesktop
    /\ calls' = Ran(calls, "desktop")
    /\ failed' = failed + Failures(status)
    /\ IF CheckCallRaises(status) THEN Raise("CalledProcessError") ELSE Continue
    /\ UNCHANGED <<generated_image_count, fs, now, handles, getLog, allocated,
                   sources, entryVars, geomVars>>

\* set_background_wm_only(image)
SetBackgroundWmOnly(status) == handles # {} /\ RunOne(status)

\* set_background_gnome2(image)
SetBackgroundGnome2(status) == handles # {} /\ RunOne(status)

\* set_background_gnome3(image): two commands, the second only after the first succeeded
SetBackgroundGnome3(status1, status2) ==
    /\ handles # {}
    /\ pc = "recipe"
    /\ calls["desktop"] < MaxDesktop
    /\ IF CheckCallRaises(status1)
       THEN /\ calls' = Ran(calls, "desktop")
            /\ failed' = failed + Failures(status1)
            /\ Raise("CalledProcessError")
       ELSE /\ calls' = Ran(Ran(calls, "desktop"), "desktop")
            /\ failed' = failed + Failures(status1) + Failures(status2)
            /\ IF CheckCallRaises(status2) THEN Raise("CalledProcessError") ELSE Continue
    /\ UNCHANGED <<generated_image_count, fs, now, handles, getLog, allocated,
                   sources, entryVars, geomVars>>

\* set_background_xfce(monitor, image)
SetBackgroundXfce(status) == handles # {} /\ RunOne(status)

\* eog(image)
Eog(status) == handles # {} /\ RunOne(status)

-----------------------------------------------------------------------------
(* The clock, and the end of the recipe *)

TickSteps == {4, SecondsPerDay}

\* wall-clock time passes between two operations of the recipe
Tick(d) ==
    /\ pc = "recipe"
    /\ IF d = SecondsPerDay
       THEN now \div SecondsPerDay < MaxDays
       ELSE (now % SecondsPerDay) + d <= MaxSecs
    /\ now' = now + d
    /\ UNCHANGED <<pc, error, generated_image_count, fs, handles, getLog, calls, failed,
                   allocated, sources, entryVars, geomVars>>

\* the recipe's last statement has run: exec_module and main return
Finish ==
    /\ pc = "recipe"
    /\ pc' = "exit0"
    /\ UNCHANGED <<error, pipeVars, sources, entryVars, geomVars>>

-----------------------------------------------------------------------------
(* Entry point *)

\* a fault: main() without the test of LEGACY_IMAGE_MAGICK
MainWithoutToolCheck ==
    /\ pc = "main"
    /\ IF Len(argv) # 2 \/ argv[2] \notin run_py
       THEN pc' = "exit1"
       ELSE pc' = "construct"
    /\ UNCHANGED <<error, pipeVars, sources, entryVars, geomVars>>

\* main(), up to spec.loader.exec_module(run)
Main ==
    /\ pc = "main"
    /\ IF LEGACY_IMAGE_MAGICK = None
       THEN pc' = "exit1"
       ELSE IF Len(argv) # 2 \/ argv[2] \notin run_py
       THEN pc' = "exit1"
       ELSE pc' = "construct"
    /\ UNCHANGED <<error, pipeVars, sources, entryVars, geomVars>>

-----------------------------------------------------------------------------
(* Natural numbers of any size, as the sequence of their digits in base     *)
(* Base, least significant first and without leading zeros: a float's      *)
(* mantissa has more bits than an integer of the checker holds.            *)

Base == 2^15

Limb(a, i) == IF i <= Len(a) THEN a[i] ELSE 0

RECURSIVE Norm(_)
Norm(a) == IF a # <<>> /\ a[Len(a)] = 0 THEN Norm(SubSeq(a, 1, Len(a) - 1)) ELSE a

RECURSIVE BigOf(_)
BigOf(n) == IF n = 0 THEN <<>> ELSE <<n % Base>> \o BigOf(n \div Base)

RECURSIVE ToInt(_)
ToInt(a) == IF a = <<>> THEN 0 ELSE Head(a) + Base * ToInt(Tail(a))

RECURSIVE CmpFrom(_, _, _)
CmpFrom(a, b, i) ==
    IF i = 0 THEN 0
    ELSE IF a[i] # b[i] THEN (IF a[i] > b[i] THEN 1 ELSE -1)
    ELSE CmpFrom(a, b, i - 1)

\* -1, 0 or 1 as a < b, a = b or a > b
Cmp(a, b) ==
    IF Len(a) # Len(b) THEN (IF Len(a) > Len(b) THEN 1 ELSE -1)
    ELSE CmpFrom(a, b, Len(a))

RECURSIVE AddFrom(_, _, _, _)
AddFrom(a, b, i, carry) ==
    IF i > Len(a) /\ i > Len(b) THEN (IF carry = 0 THEN <<>> ELSE <<carry>>)
    ELSE LET t == Limb(a, i) + Limb(b, i) + carry
         IN  <<t % Base>> \o AddFrom(a, b, i + 1, t \div Base)

Add(a, b) == AddFrom(a, b, 1, 0)

RECURSIVE SubFrom(_, _, _, _)
SubFrom(a, b, i, borrow) ==
    IF i > Len(a) THEN <<>>
    ELSE LET t == a[i] - Limb(b, i) - borrow
         IN  IF t < 0 THEN <<t + Base>> \o SubFrom(a, b, i + 1, 1)
             ELSE <<t>> \o SubFrom(a, b, i + 1, 0)

\* a - b, for a >= b
Sub(a, b) == Norm(SubFrom(a, b, 1, 0))

RECURSIVE MulSmallFrom(_, _, _, _)
MulSmallFrom(a, k, i, carry) ==
    IF i > Len(a) THEN (IF carry = 0 THEN <<>> ELSE <<carry>>)
    ELSE LET t == a[i] * k + carry
         IN  <<t % Base>> \o MulSmallFrom(a, k, i + 1, t \div Base)

\* a * k, for 0 <= k <= Base
MulSmall(a, k) == Norm(MulSmallFrom(a, k, 1, 0))

RECURSIVE MulFrom(_, _, _)
MulFrom(a, b, j) ==
    IF j > Len(b) THEN <<>>
    ELSE Add(MulSmall(a, b[j]), <<0>> \o MulFrom(a, b, j + 1))

Mul(a, b) == Norm(MulFrom(a, b, 1))

RECURSIVE SmallBitLen(_)
SmallBitLen(n) == IF n = 0 THEN 0 ELSE 1 + SmallBitLen(n \div 2)

LimbBits == SmallBitLen(Base) - 1

\* the number of bits of a
BitLen(a) == IF a = <<>> THEN 0 ELSE LimbBits * (Len(a) - 1) + SmallBitLen(a[Len(a)])

\* a * 2^s
ShiftLeft(a, s) ==
    IF a = <<>> THEN <<>>
    ELSE [i \in 1..(s \div LimbBits) |-> 0] \o MulSmall(a, 2^(s % LimbBits))

\* a \div 2^s
ShiftRight(a, s) ==
    LET limbs == s \div LimbBits
        bits == s % LimbBits
        kept == IF limbs >= Len(a) THEN <<>> ELSE SubSeq(a, limbs + 1, Len(a))
    IN  Norm([i \in 1..Len(kept) |->
                 (kept[i] \div 2^bits) + (Limb(kept, i + 1) % 2^bits) * 2^(LimbBits - bits)])

IsOdd(a) == a # <<>> /\ a[1] % 2 = 1

-----------------------------------------------------------------------------
(* Floats: Python's float is IEEE 754 binary64.  A positive float is        *)
(* [m, e], the number m * 2^e with m of at most MantissaBits bits; every   *)
(* operation returns the float nearest to the exact result, ties to the    *)
(* even mantissa.                                                          *)

MantissaBits == 53

\* the float nearest to m * 2^e, or to a little more than that when sticky
RoundToFloat(m, e, sticky) ==
    LET drop == BitLen(m) - MantissaBits
    IN  IF drop <= 0 THEN [m |-> m, e |-> e]
        ELSE LET q == ShiftRight(m, drop)
                 r == Sub(m, ShiftLeft(q, drop))
                 half == ShiftLeft(<<1>>, drop - 1)
                 c == Cmp(r, half)
                 up == c = 1 \/ (c = 0 /\ (sticky \/ IsOdd(q)))
             IN  [m |-> IF up THEN Add(q, <<1>>) ELSE q, e |-> e + drop]

\* float(n) for an int n > 0 (exact for the sizes of images)
FloatOfInt(n) == RoundToFloat(BigOf(n), 0, FALSE)

RECURSIVE QuotientDigit(_, _, _, _)
\* the largest g in lo..hi with g * d <= r, for lo * d <= r
QuotientDigit(r, d, lo, hi) ==
    IF lo = hi THEN lo
    ELSE LET mid == (lo + hi + 1) \div 2
         IN  IF Cmp(MulSmall(d, mid), r) <= 0
             THEN QuotientDigit(r, d, mid, hi)
             ELSE QuotientDigit(r, d, lo, mid - 1)

RECURSIVE DivideFrom(_, _, _, _)
\* long division in base Base: k more digits of the quotient q of r by d, for
\* r < d, as <<quotient, remainder>>
DivideFrom(r, d, k, q) ==
    IF k = 0 THEN <<Norm(q), r>>
    ELSE LET r2 == MulSmall(r, Base)
             g == QuotientDigit(r2, d, 0, Base - 1)
         IN  DivideFrom(Sub(r2, MulSmall(d, g)), d, k - 1, <<g>> \o q)

\* the digits of a quotient that hold two bits more than a mantissa
QuotientDigits == ((MantissaBits + 2) \div LimbBits) + 1

\* x / y
FloatDiv(x, y) ==
    LET shift == BitLen(x.m) - BitLen(y.m) + 1
        r == IF shift < 0 THEN ShiftLeft(x.m, -shift) ELSE x.m
        d == IF shift > 0 THEN ShiftLeft(y.m, shift) ELSE y.m
        qr == DivideFrom(r, d, QuotientDigits, <<>>)
    IN  RoundToFloat(qr[1], x.e - y.e + shift - QuotientDigits * LimbBits, qr[2] # <<>>)

\* x * y
FloatMul(x, y) == RoundToFloat(Mul(x.m, y.m), x.e + y.e, FALSE)

\* x > y
FloatGt(x, y) ==
    LET e == IF x.e < y.e THEN x.e ELSE y.e
    IN  Cmp(ShiftLeft(x.m, x.e - e), ShiftLeft(y.m, y.e - e)) = 1

\* int(x): truncation toward zero
IntOfFloat(x) == IF x.e >= 0 THEN ToInt(ShiftLeft(x.m, x.e)) ELSE ToInt(ShiftRight(x.m, -x.e))

-----------------------------------------------------------------------------
(* Geometry *)

Size(w, h) == [w |-> w, h |-> h]

\* aspect_ratio: float(size.w) / size.h
aspect_ratio(size) == FloatDiv(FloatOfInt(size.w), FloatOfInt(size.h))

\* scale_to_width
scale_to_width(o, width) ==
    Size(width, IntOfFloat(FloatDiv(FloatOfInt(width), aspect_ratio(o))))

\* scale_to_height
scale_to_height(o, height) ==
    Size(IntOfFloat(FloatMul(FloatOfInt(height), aspect_ratio(o))), height)

\* a fault: the test of scale_to_fit the wrong way round
NarrowerThan(o, box) == FloatGt(aspect_ratio(box), aspect_ratio(o))

\* the test of scale_to_fit: is the image wider, for its height, than the box
WiderThan(o, box) == FloatGt(aspect_ratio(o), aspect_ratio(box))

\* scale_to_fit
scale_to_fit(o, box) ==
    IF WiderThan(o, box) THEN scale_to_width(o, box.w) ELSE scale_to_height(o, box.h)

\* a recipe calls scale_to_fit(orig, bounding_box)
ScaleToFit ==
    /\ pc = "geometry"
    /\ fitted' = scale_to_fit(orig, bounding_box)
    /\ pc' = "fitted"
    /\ UNCHANGED <<error, orig, bounding_box, pipeVars, sources, entryVars>>

-----------------------------------------------------------------------------
(* Inputs *)

NameAB == <<"A", " ", "B">>
NameA_B == <<"A", "_", "B">>
NameA == <<"A">>
NameATabB == <<"A", "\t", "B">>
SourceNames == {NameAB, NameA_B, NameA, NameATabB}

SizeL == <<"l">>
SizeB_l == <<"B", "_", "l">>
SizeLabels == {SizeL, SizeB_l}

UrlJpg == <<"u">> \o JpgSuffix
UrlPng == <<"u", ".", "p", "n", "g">>

\* the catalog of the runs: two sources, refreshed every 3 seconds and always
RunCatalog ==
    << [name |-> NameAB, url |-> (SizeL :> UrlJpg), interval |-> 3],
       [name |-> NameA, url |-> (SizeL :> UrlJpg), interval |-> 0] >>

\* files a previous run may have left in the images directory
LeftoverPaths == {ImagePath(CacheFilename(NameAB, SizeL)), ImagePath(NewFilename(0, Png))}

LeftoverFiles ==
    {[p \in paths |-> [exists |-> TRUE, mtime |-> 0, ver |-> 1]] : paths \in SUBSET LeftoverPaths}

Size1 == [w |-> 1, h |-> 1]

EntryDone ==
    /\ argv = <<"downlinx.py", "dir">>
    /\ run_py = {"dir"}

GeomIdle == orig = Size1 /\ bounding_box = Size1 /\ fitted = Size1

PipelineNew ==
    /\ generated_image_count = 0
    /\ now = 0
    /\ handles = {}
    /\ getLog = <<>>
    /\ calls = NoCalls
    /\ failed = 0
    /\ allocated = <<>>

-----------------------------------------------------------------------------
(* The run of a recipe: a Downlinx instance has been constructed over the     *)
(* catalog, and the recipe calls its operations one after another.          *)

Init ==
    /\ pc = "recipe"
    /\ error = "none"
    /\ find_exec = {"magick"}
    /\ EntryDone
    /\ sources = RunCatalog
    /\ fs \in LeftoverFiles
    /\ PipelineNew
    /\ GeomIdle

Operation ==
    \E status \in ExitStatus, partial \in BOOLEAN, probe \in ExitStatus :
        \/ Crop(status, partial, probe)
        \/ Blank(status, partial, probe)
        \/ Place(status, partial, probe)
        \/ Resize(status, partial, probe)
        \/ ToJpg(status, partial, probe)
        \/ \E source_name \in SourceNames, size \in SizeLabels :
               Get(source_name, size, status, partial, probe)

Desktop ==
    \E status \in ExitStatus :
        \/ SetBackgroundWmOnly(status)
        \/ SetBackgroundGnome2(status)
        \/ \E status2 \in ExitStatus : SetBackgroundGnome3(status, status2)
        \/ SetBackgroundXfce(status)
        \/ Eog(status)

Next ==
    \/ Operation
    \/ Desktop
    \/ \E d \in TickSteps : Tick(d)
    \/ Finish

Spec == Init /\ [][Next]_vars

-----------------------------------------------------------------------------
(* Loading a catalog: any catalog of at most MaxSources sources, then get.  *)

UrlMaps == UNION {[labels -> {UrlJpg, UrlPng}] : labels \in (SUBSET SizeLabels) \ {{}}}

Descriptors == [name : SourceNames, url : UrlMaps, interval : {3}]

Catalogs == UNION {[1..n -> Descriptors] : n \in 0..MaxSources}

InitCatalog ==
    /\ pc = "construct"
    /\ error = "none"
    /\ find_exec = {"magick"}
    /\ EntryDone
    /\ sources \in Catalogs
    /\ fs = <<>>
    /\ PipelineNew
    /\ GeomIdle

NextCatalog ==
    \/ Construct
    \/ \E source_name \in SourceNames, size \in SizeLabels,
          status \in ExitStatus, partial \in BOOLEAN, probe \in ExitStatus :
           Get(source_name, size, status, partial, probe)

SpecCatalog == InitCatalog /\ [][NextCatalog]_vars

-----------------------------------------------------------------------------
(* The command line: any executables found, any argument list, a run.py in  *)
(* any of the directories.                                                  *)

Dirs == {"d1", "d2"}

Argvs == UNION {[1..n -> {"downlinx.py"} \cup Dirs] : n \in 1..3}

InitMain ==
    /\ pc = "main"
    /\ error = "none"
    /\ find_exec \in SUBSET {"magick", "convert"}
    /\ argv \in {a \in Argvs : a[1] = "downlinx.py" /\ \A i \in 2..Len(a) : a[i] \in Dirs}
    /\ run_py \in SUBSET Dirs
    /\ sources = RunCatalog
    /\ fs = <<>>
    /\ PipelineNew
    /\ GeomIdle

NextMain ==
    \/ Main
    \/ Construct
    \/ \E status \in ExitStatus, partial \in BOOLEAN, probe \in ExitStatus :
           \/ Blank(status, partial, probe)
           \/ \E source_name \in SourceNames, size \in SizeLabels :
                  Get(source_name, size, status, partial, probe)
    \/ Finish

SpecMain == InitMain /\ [][NextMain]_vars

-----------------------------------------------------------------------------
(* Geometry: scale_to_fit on every size and box of at most MaxDim pixels a  *)
(* side, and on the sizes of the documented example.                        *)

MaxDim == 9

Sizes == {Size(w, h) : w \in 1..MaxDim, h \in 1..MaxDim}

InitGeom ==
    /\ pc = "geometry"
    /\ error = "none"
    /\ find_exec = {"magick"}
    /\ EntryDone
    /\ sources = RunCatalog
    /\ fs = <<>>
    /\ PipelineNew
    /\ orig \in Sizes \cup {Size(1000, 500)}
    /\ bounding_box \in Sizes \cup {Size(800, 800)}
    /\ fitted = Size1

SpecGeom == InitGeom /\ [][ScaleToFit]_vars

-----------------------------------------------------------------------------
(* Properties *)

InCatalog(source_name) == \E i \in 1..Len(sources) : sources[i].name = source_name

\* the catalog holds the pair of a get() call: the source and, for it, the size label
KnownPair(e) ==
    /\ InCatalog(e.source_name)
    /\ e.size \in DOMAIN sources[Source(sources, e.source_name)].url

IntervalOf(e) == sources[Source(sources, e.source_name)].interval

SamePair(e1, e2) == e1.source_name = e2.source_name /\ e1.size = e2.size

\* C1: every transform operation of the instance, failing ones included, is
\* given a counter value and an output path that no earlier operation of the
\* instance was given, and generated_image_count never decreases.
C1_FreshOutputPaths ==
    /\ [](/\ \A i \in 1..Len(allocated) : \A j \in 1..Len(allocated) :
                 i < j => /\ allocated[i].filepath # allocated[j].filepath
                          /\ allocated[i].count < allocated[j].count
          /\ \A i \in 1..Len(allocated) : allocated[i].count < generated_image_count)
    /\ [][generated_image_count' >= generated_image_count]_vars

\* two operations were given paths, and the image tool failed in the second
C1_Witness ==
    /\ Len(allocated) = 2
    /\ calls["image"] = 2
    /\ failed = 1
    /\ pc = "aborted"

\* C2 (as claimed): of two successive get() calls for a pair of the catalog,
\* the first finding no cached file or a stale one and the second made less
\* than the refresh interval later, the first downloads and the second does not.
C2_OneDownloadWithinInterval ==
    \A i \in 1..Len(getLog) : \A j \in 1..Len(getLog) :
        ( /\ i < j
          /\ KnownPair(getLog[i])
          /\ SamePair(getLog[i], getLog[j])
          /\ \A k \in (i + 1)..(j - 1) : ~SamePair(getLog[i], getLog[k])
          /\ (~getLog[i].existed \/ getLog[i].elapsed >= IntervalOf(getLog[i]))
          /\ getLog[j].at - getLog[i].at < IntervalOf(getLog[i]) )
        => (getLog[i].downloaded /\ ~getLog[j].downloaded)

\* C3 (as claimed): for a pair of the catalog, get() skips the download exactly
\* when the cached file exists and the time since its last modification is
\* less than the refresh interval.
C3_SkipIffFresh ==
    \A i \in 1..Len(getLog) :
        KnownPair(getLog[i]) =>
            (~getLog[i].downloaded <=>
                (getLog[i].existed /\ getLog[i].elapsed < IntervalOf(getLog[i])))

\* C5: a get() for a source name the catalog does not hold ends the run with an
\* error, returns no Image and downloads nothing, whether or not a file is at
\* the cache path of that name.
C5_UnknownSourceRaises ==
    \A i \in 1..Len(getLog) :
        ~InCatalog(getLog[i].source_name) =>
            /\ ~getLog[i].returned
            /\ ~getLog[i].downloaded
            /\ i = Len(getLog)
            /\ pc = "aborted"
            /\ error \in {"TypeError", "AssertionError"}

\* an unknown name whose cache path holds a file
C5_Witness ==
    /\ getLog # <<>>
    /\ ~InCatalog(getLog[Len(getLog)].source_name)
    /\ getLog[Len(getLog)].existed
    /\ error = "TypeError"

\* C6: a command that exits with a failure status ends the run: the operation
\* returns no Image, nothing is run after the failing command in that
\* operation, and no operation, download or desktop command follows.
C6_FailureAbortsRun ==
    /\ [](failed > 0 => pc = "aborted")
    /\ [][ /\ failed' > failed => (failed' = failed + 1 /\ handles' = handles)
           /\ pc = "aborted" => UNCHANGED <<pc, calls, handles, fs, getLog,
                                            generated_image_count, failed>> ]_vars

\* the image tool failed in the second transform operation of a run
C6_Witness ==
    /\ failed = 1
    /\ pc = "aborted"
    /\ calls["image"] = 2
    /\ calls["identify"] = 1

\* the file of a handle is there with the content the handle was made from
Intact(h) == IsFile(fs, h.filepath) /\ fs[h.filepath].ver = h.ver

\* C7 (as claimed): the file of every Image handle returned so far has not
\* been rewritten or removed.
C7_HandlesNeverRewritten == \A h \in handles : Intact(h)

\* C7 (amended): the file of a handle a transform operation returned is never
\* rewritten or removed; the file of a handle get() returned is never removed,
\* and is rewritten only by a later get() of the same cache path that
\* downloads again.
C7_TransformHandlesNeverRewritten ==
    \A h \in handles :
        /\ IsFile(fs, h.filepath)
        /\ h.by = "transform" => Intact(h)
        /\ (h.by = "get" /\ ~Intact(h)) =>
               \E i \in 1..Len(getLog) :
                   getLog[i].filepath = h.filepath /\ getLog[i].downloaded

\* a handle of get() was overwritten by a second download while a handle of a
\* transform operation is intact
C7_Witness ==
    /\ \E h \in handles : h.by = "get" /\ ~Intact(h)
    /\ \E h \in handles : h.by = "transform" /\ Intact(h)

\* str.replace of every whitespace character by '_': the normalisation the
\* catalog's names must stay unique under
NormalizeWhitespace(string) ==
    [i \in 1..Len(string) |-> IF string[i] \in Whitespace THEN "_" ELSE string[i]]

\* a Downlinx instance was constructed
InstanceExists == pc = "recipe" \/ getLog # <<>>

\* C4: a catalog in which two sources have the same name, or the same name
\* after whitespace is replaced by underscores, fails construction: no
\* instance exists and no get() is made.
C4_CollidingNamesFailConstruction ==
    InstanceExists =>
        \A i \in 1..Len(sources) : \A j \in 1..Len(sources) :
            i # j => /\ sources[i].name # sources[j].name
                     /\ NormalizeWhitespace(sources[i].name)
                            # NormalizeWhitespace(sources[j].name)

\* the catalog of "A B" and "A_B" was rejected
C4_Witness ==
    /\ Len(sources) = 2
    /\ sources[1].name = NameAB
    /\ sources[2].name = NameA_B
    /\ pc = "aborted"
    /\ error = "Exception"
    /\ getLog = <<>>

\* C10 (as claimed): two different pairs of the catalog never resolve to the
\* same cache file path.
C10_DistinctPairsDistinctPaths ==
    \A i \in 1..Len(getLog) : \A j \in 1..Len(getLog) :
        ( /\ KnownPair(getLog[i]) /\ KnownPair(getLog[j])
          /\ ~SamePair(getLog[i], getLog[j]) )
        => getLog[i].filepath # getLog[j].filepath

\* the recipe may run: the image tool was found, and the one argument names a
\* directory with a run.py
MayRun ==
    /\ LEGACY_IMAGE_MAGICK # None
    /\ Len(argv) = 2
    /\ argv[2] \in run_py

\* C9: the recipe runs only when the image tool was found and the one argument
\* names a directory with a run.py; otherwise main exits with a non-zero status
\* and no recipe code, operation or download has run.
C9_RecipeOnlyWhenUsable ==
    /\ pc \notin {"main", "exit1"} => MayRun
    /\ (pc # "main" /\ ~MayRun) => pc = "exit1"
    /\ pc = "exit1" => /\ calls = NoCalls
                       /\ generated_image_count = 0
                       /\ getLog = <<>>
                       /\ handles = {}

\* the image tool is there and one argument was given, but it holds no run.py
C9_Witness ==
    /\ pc = "exit1"
    /\ LEGACY_IMAGE_MAGICK = "True"
    /\ Len(argv) = 2
    /\ argv[2] \notin run_py

\* C8: scale_to_fit returns a size that fits in the box and touches it on one
\* axis at least, and scale_to_fit(Size(1000,500), Size(800,800)) is Size(800,400).
C8_FitsInBox ==
    pc = "fitted" =>
        /\ fitted.w <= bounding_box.w
        /\ fitted.h <= bounding_box.h
        /\ fitted.w = bounding_box.w \/ fitted.h = bounding_box.h
        /\ (orig = Size(1000, 500) /\ bounding_box = Size(800, 800)) => fitted = Size(800, 400)

\* the documented example
C8_Witness ==
    /\ pc = "fitted"
    /\ orig = Size(1000, 500)
    /\ bounding_box = Size(800, 800)
    /\ fitted = Size(800, 400)

=============================================================================
